---- MODULE Spec2Model ----
(***************************************************************************)
(* Model of the offline certificate authority wrapper and of the          *)
(* standalone JWT signing workflow (src/command/ca/offline.go).           *)
(*                                                                         *)
(* Two specifications share the module:                                    *)
(*   SpecSign - one run of signAction, step by step, against a clock that  *)
(*              advances between the three time.Now() reads;               *)
(*   Spec     - the offlineCA: newOfflineCA and the methods a caller may   *)
(*              invoke on the value it returned; GenerateToken waits on    *)
(*              the helper process of exec.Step (src/exec/exec.go) or on   *)
(*              the metadata request of the cloud provisioner;             *)
(*   SpecExec - one run of exec.Run or exec.RunWithPid (src/exec/exec.go): *)
(*              the main goroutine, the signalHandler goroutine, the child *)
(*              process, the pid file and the signals sent to the wrapper. *)
(***************************************************************************)
EXTENDS Integers, Sequences, FiniteSets, TLC

VARIABLES
    \* ---- signAction ----
    ctx,        \* the command line: flags and positional arguments
    clock,      \* wall clock, in ticks (TicksPerSec ticks per second)
    pc,         \* position of signAction
    payload,    \* the decoded payload (a JSON object)
    jwk,        \* the signing key once read and accepted by the key policy, else NoKey
    c,          \* the jose.Claims built at line 584
    tExp,       \* time.Now() as read at line 579, NoTime if not read
    tCheck,     \* time.Now() as read at line 617, NoTime if not read
    keyReads,   \* calls of jose.ParseKey / jose.ParseKeySet
    stdout,     \* lines written to standard output
    err,        \* the error signAction returned, NoErr for nil
    \* ---- offlineCA ----
    ca,             \* the *offlineCA the caller holds: nil, or the loaded authority
    used,           \* authority state: the one-time tokens already spent
    revoked,        \* revocation store: the serials revoked
    sharedContext,  \* the package's sharedContext.DisableCustomSANs
    pending,        \* the GenerateToken call waiting on its identity source
    last,           \* the last call on the offlineCA and what it returned
    \* ---- exec.Run / exec.RunWithPid ----
    mode,           \* the entry point: "Run" or "RunWithPid"
    mainPc,         \* position of the main goroutine
    handlerPc,      \* position of the signalHandler goroutine
    sig,            \* the signal signalHandler received and has not yet forwarded
    child,          \* the child process: "notStarted", "running" or "finished"
    childStatus,    \* the exit status of the finished child
    processState,   \* cmd.ProcessState, nil until cmd.Wait sets it
    wrapper,        \* the wrapper process: "running", "exited" or "killed"
    exitCode,       \* the code given to os.Exit
    sent,           \* the values received from exitCh, in order
    pidFile,        \* the pid file: "absent", "foreign", "created" or "written"
    pidFileAtStart, \* the pid file when RunWithPid was called
    arrived,        \* signals delivered to the wrapper process
    dropped,        \* signals that arrived while the child ran and were discarded
    forwarded       \* signals passed to the running child by cmd.Process.Signal

signVars == <<ctx, clock, pc, payload, jwk, c, tExp, tCheck, keyReads, stdout, err>>

caVars == <<ca, used, revoked, sharedContext, pending, last>>

execVars ==
    <<mode, mainPc, handlerPc, sig, child, childStatus, processState, wrapper,
      exitCode, sent, pidFile, pidFileAtStart, arrived, dropped, forwarded>>

vars == <<signVars, caVars, execVars>>

----------------------------------------------------------------------------
(* Bounds *)

\* the clock stops advancing at MaxClock ticks
MaxClock == 4
\* --exp ranges over 0..MaxExp seconds
MaxExp == 2
\* --aud is given at most MaxAud times
MaxAud == 2

\* clock ticks per second: time.Now() is finer than the whole seconds of --exp
TicksPerSec == 2
\* signals sent to the wrapper process during one run
MaxSignals == 2

----------------------------------------------------------------------------
(* Values *)

NoErr == "nil"
NoTime == -2
\* time.Time{} (year 1), what a nil *NumericDate converts to: before every clock value
ZeroTime == -1
NoKey == [parsed |-> FALSE, public |-> FALSE, use |-> "", alg |-> "", wellFormed |-> FALSE, kid |-> ""]

ErrTooManyArgs == "too many positional arguments"
ErrPayload == "error reading payload"
ErrKeyOrJwks == "flag '--key' or '--jwks' is required"
ErrKeyAndJwks == "flag '--key' and flag '--jwks' are mutually exclusive"
ErrKidWithJwks == "flag '--jwks' requires the '--kid' flag"
ErrParseKey == "error reading key"
ErrPublicKey == "cannot use a public key for signing"
ErrKeyUse == "invalid jwk use"
ErrAlgRequired == "flag '--alg' is required with the given key"
ErrInvalidJWK == "invalid jwk"
ErrExpFlag == "flag '--exp' must be in the future unless the '--subtle' flag is provided"
ErrRandomJti == "error creating random jti"
ErrIssRequired == "flag '--iss' is required unless '--subtle' is used"
ErrAudRequired == "flag '--aud' is required unless '--subtle' is used"
ErrSubRequired == "flag '--sub' is required unless '--subtle' is used"
ErrExpRequired == "flag '--exp' is required unless '--subtle' is used"
ErrExpPast == "flag '--exp' must be in the future unless '--subtle' is used"
ErrSigner == "error creating JWT signer"
ErrSerialize == "error serializing JWT"

UsageErrors == {ErrTooManyArgs, ErrKeyOrJwks, ErrKeyAndJwks, ErrKidWithJwks}

\* JSON values of a claim set: a string, a list of strings or a number
JStr(s) == [t |-> "str", s |-> s, l |-> <<>>, n |-> 0]
JList(l) == [t |-> "list", s |-> "", l |-> l, n |-> 0]
JNum(n) == [t |-> "num", s |-> "", l |-> <<>>, n |-> n]

EmptyObject == [k \in {} |-> JStr("")]

\* the i-th value given with --aud
AudValue(i) == <<"a1", "a2", "a3", "a4">>[i]

\* --aud given 0..MaxAud times
AudLists == {[i \in 1..n |-> AudValue(i)] : n \in 0..MaxAud}

\* payloads the user may supply: none, a custom member, an aud member of its own
Payloads ==
    { EmptyObject,
      [k \in {"x"} |-> JStr("v")],
      [k \in {"aud"} |-> JList(<<AudValue(1)>>)] }

NoClaims == [Issuer |-> "", Subject |-> "", Audience |-> <<>>, Expiry |-> 0,
             NotBefore |-> 0, IssuedAt |-> 0, ID |-> ""]

----------------------------------------------------------------------------
(* jose helpers *)

\* jose.UnixNumericDate(s).Time(): nil (s = 0) converts to the zero time,
\* s seconds to the instant s seconds after the epoch
NumericDateTime(s) == IF s = 0 THEN ZeroTime ELSE s * TicksPerSec

\* jose.NewNumericDate(t): the whole seconds of t
NewNumericDate(t) == t \div TicksPerSec

\* t.Before(u)
Before(t, u) == t < u

\* the members a jose.Claims marshals to: empty members are omitted and the
\* audience is the list encoding
ClaimsObject(cl) ==
    LET keys == {k \in {"iss", "sub", "aud", "exp", "nbf", "iat", "jti"} :
                    \/ k = "iss" /\ cl.Issuer # ""
                    \/ k = "sub" /\ cl.Subject # ""
                    \/ k = "aud" /\ Len(cl.Audience) > 0
                    \/ k = "exp" /\ cl.Expiry # 0
                    \/ k = "nbf" /\ cl.NotBefore # 0
                    \/ k = "iat" /\ cl.IssuedAt # 0
                    \/ k = "jti" /\ cl.ID # ""}
    IN [k \in keys |->
            CASE k = "iss" -> JStr(cl.Issuer)
              [] k = "sub" -> JStr(cl.Subject)
              [] k = "aud" -> JList(cl.Audience)
              [] k = "exp" -> JNum(cl.Expiry)
              [] k = "nbf" -> JNum(cl.NotBefore)
              [] k = "iat" -> JNum(cl.IssuedAt)
              [] OTHER     -> JStr(cl.ID)]

\* builder.Claims(m): the members of m replace those already present
MergeClaims(base, m) ==
    [k \in DOMAIN base \cup DOMAIN m |-> IF k \in DOMAIN m THEN m[k] ELSE base[k]]

AudOverrideNever(cl) == EmptyObject

\* lines 639-642: the map holding aud as a bare string for a single audience
AudOverride(cl) ==
    IF Len(cl.Audience) = 1
        THEN [k \in {"aud"} |-> JStr(cl.Audience[1])]
        ELSE EmptyObject

\* line 644: Claims(c).Claims(aud).Claims(payload)
TokenClaims(cl, pl) ==
    MergeClaims(MergeClaims(MergeClaims(EmptyObject, ClaimsObject(cl)), AudOverride(cl)), pl)

----------------------------------------------------------------------------
(* offlineCA: values *)

revokeType == "revoke"
signType == "sign"

\* a provisioner of the configuration: its type, whether a JWK provisioner
\* carries an encryptedKey, and the cloud provisioners' disableCustomSANs
ProvisionerRecords ==
    [type : {"JWK"}, encryptedKey : BOOLEAN, disableCustomSANs : {FALSE}]
    \cup [type : {"GCP", "AWS", "Azure"}, encryptedKey : {FALSE}, disableCustomSANs : BOOLEAN]
    \cup [type : {"OIDC", "ACME"}, encryptedKey : {FALSE}, disableCustomSANs : {FALSE}]

\* the provisioner lists of the configurations considered: none, any single
\* provisioner, and a pair that makes provisionerPrompt ask
ProvisionerLists ==
    {<<>>}
    \cup {<<p>> : p \in ProvisionerRecords}
    \cup {<<[type |-> "JWK", encryptedKey |-> TRUE, disableCustomSANs |-> FALSE],
            [type |-> "OIDC", encryptedKey |-> FALSE, disableCustomSANs |-> FALSE]>>}

\* authority.Config as decoded from the file; without an authority section
\* there is no provisioner list
Configs ==
    { x \in [hasAuthority : BOOLEAN, provisioners : ProvisionerLists, hasDNSNames : BOOLEAN] :
        ~x.hasAuthority => x.provisioners = <<>> }

NoConfig == [hasAuthority |-> FALSE, provisioners |-> <<>>, hasDNSNames |-> FALSE]

\* the nil *offlineCA
NilCA == [loaded |-> FALSE, config |-> NoConfig]

\* one-time tokens a request may carry; the empty string is no token
ValidOTT == "ott-valid"
OTTs == {ValidOTT, "ott-expired", "ott-invalid"}
Serials == {"s1", "s2"}

ErrAuthzInvalid == "authorization error: invalid token"
ErrAuthzExpired == "authorization error: token expired"
ErrAuthzUsed == "authorization error: token already used"
ErrSigning == "error signing certificate"
ErrRenew == "error renewing certificate"
ErrParseCert == "error parsing certificate"
ErrAlreadyRevoked == "certificate is already revoked"
ErrStore == "revocation store error"
ErrReadConfig == "error reading configuration file"
ErrDecodeConfig == "error reading configuration: malformed JSON"
ErrNoProvisioners == "error parsing configuration: no provisioners found"
ErrAuthorityNew == "error creating authority"
ErrReadCert == "error reading certificate"
ErrReadKey == "error reading key file"
ErrSerializePEM == "error serializing PEM"
ErrKeyPair == "error loading x509 key pair"
ErrCertPool == "error reading certificate pool"
ErrVerify == "failed to verify certificate"
ErrPrompt == "error selecting provisioner"
ErrOAuth == "error running step oauth"
ErrIdentityToken == "error getting identity token"
ErrUnknownProvisioner == "unknown provisioner type"
ErrNoEncryptedKey == "provisioner does not have an 'encryptedKey' property"
ErrDecrypt == "error decrypting provisioner key"
ErrUnmarshalKey == "error unmarshalling provisioning key"
ErrGenerateToken == "error generating token"

AuthorizationErrors == {ErrAuthzInvalid, ErrAuthzExpired, ErrAuthzUsed}

\* authority.RevokeOptions
NoRevokeOptions ==
    [Serial |-> "", Reason |-> "", ReasonCode |-> 0, PassiveOnly |-> FALSE,
     OTT |-> "", MTLS |-> FALSE, Crt |-> ""]

\* provisioner.Options of a Sign call
NoSignOptions == [NotBefore |-> 0, NotAfter |-> 0]

\* api.RevokeRequest
NoRevokeRequest ==
    [OTT |-> "", Serial |-> "", Reason |-> "", ReasonCode |-> 0, Passive |-> FALSE]

\* what a call returned: a value and a nil error, a nil value and an error,
\* or no return at all (a run-time panic)
NoResp == <<>>

Idle ==
    [op |-> "none", recvLoaded |-> FALSE, outcome |-> "none", err |-> NoErr,
     resp |-> NoResp, calls |-> <<>>, req |-> NoRevokeRequest, cfg |-> NoConfig,
     rtInspected |-> FALSE]

\* no GenerateToken call is waiting on an identity source
NoPending ==
    [waiting |-> FALSE, answers |-> FALSE, typ |-> "", choice |-> 1, promptOK |-> FALSE]

\* the offlineCA untouched, as in a process that runs signAction
CAIdle ==
    /\ ca = NilCA
    /\ pending = NoPending
    /\ used = {}
    /\ revoked = {}
    /\ sharedContext = FALSE
    /\ last = Idle

\* cmd.ProcessState before cmd.Wait returned
NoProcessState == [set |-> FALSE, status |-> 0]

\* no child process is being run, as in a process that runs signAction or
\* uses the offlineCA
ExecIdle ==
    /\ mode = "none" /\ mainPc = "none" /\ handlerPc = "none" /\ sig = ""
    /\ child = "notStarted" /\ childStatus = 0 /\ processState = NoProcessState
    /\ wrapper = "running" /\ exitCode = 0 /\ sent = <<>>
    /\ pidFile = "absent" /\ pidFileAtStart = "absent"
    /\ arrived = 0 /\ dropped = 0 /\ forwarded = 0

----------------------------------------------------------------------------
(* signAction, lines 490-651 *)

Contexts ==
    { x \in [key : {"", "key.pem"}, jwks : {"", "set.json"}, kid : {"", "k1"},
              subtle : BOOLEAN,
              iss : {"", "i"}, sub : {"", "s"}, aud : AudLists,
              expSet : BOOLEAN, exp : 0..MaxExp,
              jtiSet : BOOLEAN, jti : {"", "j"}] :
        /\ (~x.expSet => x.exp = 0)
        /\ (~x.jtiSet => x.jti = "") }

\* the keys jose.ParseKey / jose.ParseKeySet may return
ParsedKeys ==
    [parsed : {TRUE}, public : BOOLEAN, use : {"", "sig", "enc"},
     alg : {"", "ES256"}, wellFormed : BOOLEAN, kid : {"", "k1"}]

InitSign ==
    /\ ctx \in Contexts
    /\ clock = 1
    /\ pc = "readPayload"
    /\ payload = EmptyObject
    /\ jwk = NoKey
    /\ c = NoClaims
    /\ tExp = NoTime
    /\ tCheck = NoTime
    /\ keyReads = 0
    /\ stdout = <<>>
    /\ err = NoErr
    /\ CAIdle
    /\ ExecIdle

\* return e
Fail(e) == pc' = "done" /\ err' = e

\* the clock advances while signAction runs; signAction observes it only at
\* lines 579, 593 and 617, so it is advanced on the way to one of these reads
Tick ==
    /\ pc \in {"validateExp", "addClaims", "validateClaims"}
    /\ clock < MaxClock
    /\ clock' = clock + 1
    /\ UNCHANGED <<ctx, pc, payload, jwk, c, tExp, tCheck, keyReads, stdout, err, caVars, execVars>>

\* lines 494-509: zero or one positional argument, then readPayload
ReadPayload ==
    /\ pc = "readPayload"
    /\ \E nargs \in 0..2, readOK \in BOOLEAN, r \in Payloads :
          IF nargs >= 2
              THEN Fail(ErrTooManyArgs) /\ UNCHANGED payload
              ELSE IF ~readOK
                  THEN Fail(ErrPayload) /\ UNCHANGED payload
                  ELSE payload' = r /\ pc' = "validateKey" /\ UNCHANGED err
    /\ UNCHANGED <<ctx, clock, jwk, c, tExp, tCheck, keyReads, stdout, caVars, execVars>>

KeyFlagsErrorNoExclusion(x) ==
    CASE x.key = "" /\ x.jwks = "" -> ErrKeyOrJwks
      [] x.jwks # "" /\ x.kid = "" -> ErrKidWithJwks
      [] OTHER -> NoErr

\* lines 518-525: the switch over key, jwks and kid
KeyFlagsError(x) ==
    CASE x.key = "" /\ x.jwks = "" -> ErrKeyOrJwks
      [] x.key # "" /\ x.jwks # "" -> ErrKeyAndJwks
      [] x.jwks # "" /\ x.kid = "" -> ErrKidWithJwks
      [] OTHER -> NoErr

ValidateKeyFlags ==
    /\ pc = "validateKey"
    /\ IF KeyFlagsError(ctx) # NoErr
         THEN Fail(KeyFlagsError(ctx))
         ELSE pc' = "readKey" /\ UNCHANGED err
    /\ UNCHANGED <<ctx, clock, payload, jwk, c, tExp, tCheck, keyReads, stdout, caVars, execVars>>

\* lines 557-576: public key, use, algorithm, jose.ValidateJWK
KeyPolicyError(k) ==
    CASE k.public -> ErrPublicKey
      [] k.use # "sig" /\ k.use # "" -> ErrKeyUse
      [] k.alg = "" -> ErrAlgRequired
      [] ~k.wellFormed -> ErrInvalidJWK
      [] OTHER -> NoErr

\* lines 543-576: read the key from --key or --jwks, then the key policy
ReadKey ==
    /\ pc = "readKey"
    /\ IF ctx.key = "" /\ ctx.jwks = ""
         THEN Fail(ErrKeyOrJwks) /\ UNCHANGED <<jwk, keyReads>>
         ELSE /\ keyReads' = keyReads + 1
              /\ \E parseOK \in BOOLEAN, k \in ParsedKeys :
                    IF ~parseOK
                        THEN Fail(ErrParseKey) /\ UNCHANGED jwk
                        ELSE IF KeyPolicyError(k) # NoErr
                            THEN Fail(KeyPolicyError(k)) /\ UNCHANGED jwk
                            ELSE jwk' = k /\ pc' = "validateExp" /\ UNCHANGED err
    /\ UNCHANGED <<ctx, clock, payload, c, tExp, tCheck, stdout, caVars, execVars>>

\* line 579: the clock is read only when --subtle is off and --exp is set
ReadsClockForExp(x) == ~x.subtle /\ x.expSet

ValidateExp ==
    /\ pc = "validateExp"
    /\ tExp' = IF ReadsClockForExp(ctx) THEN clock ELSE NoTime
    /\ IF ReadsClockForExp(ctx) /\ Before(NumericDateTime(ctx.exp), clock)
         THEN Fail(ErrExpFlag)
         ELSE pc' = "addClaims" /\ UNCHANGED err
    /\ UNCHANGED <<ctx, clock, payload, jwk, c, tCheck, keyReads, stdout, caVars, execVars>>

\* lines 584-599: the claims from the flags, nbf and iat defaulting to now
BuildClaims(x, nbf, iat, now) ==
    [Issuer |-> x.iss, Subject |-> x.sub, Audience |-> x.aud, Expiry |-> x.exp,
     NotBefore |-> IF nbf = 0 THEN NewNumericDate(now) ELSE nbf,
     IssuedAt |-> IF iat = 0 THEN NewNumericDate(now) ELSE iat,
     ID |-> x.jti]

\* lines 583-604: build the claims; a --jti without a value is drawn at random
AddClaims ==
    /\ pc = "addClaims"
    /\ \E nbf \in {0, 1}, iat \in {0, 1}, randOK \in BOOLEAN :
          LET cl == BuildClaims(ctx, nbf, iat, clock) IN
          IF cl.ID = "" /\ ctx.jtiSet
              THEN IF randOK
                      THEN c' = [cl EXCEPT !.ID = "r"] /\ pc' = "validateClaims" /\ UNCHANGED err
                      ELSE Fail(ErrRandomJti) /\ c' = cl
              ELSE c' = cl /\ pc' = "validateClaims" /\ UNCHANGED err
    /\ UNCHANGED <<ctx, clock, payload, jwk, tExp, tCheck, keyReads, stdout, caVars, execVars>>

\* line 617 is reached, and the clock read, when the four earlier cases are false
ReadsClockForClaims(cl, subtle) ==
    /\ ~subtle
    /\ Len(cl.Issuer) # 0 /\ Len(cl.Audience) # 0 /\ Len(cl.Subject) # 0
    /\ cl.Expiry # 0

ClaimsErrorSubFirst(cl, subtle, t) ==
    IF subtle THEN NoErr
    ELSE CASE Len(cl.Issuer) = 0 -> ErrIssRequired
           [] Len(cl.Subject) = 0 -> ErrSubRequired
           [] Len(cl.Audience) = 0 -> ErrAudRequired
           [] cl.Expiry = 0 -> ErrExpRequired
           [] Before(NumericDateTime(cl.Expiry), t) -> ErrExpPast
           [] OTHER -> NoErr

ClaimsErrorIgnoresSubtle(cl, subtle, t) ==
    CASE Len(cl.Issuer) = 0 -> ErrIssRequired
      [] Len(cl.Audience) = 0 -> ErrAudRequired
      [] Len(cl.Subject) = 0 -> ErrSubRequired
      [] cl.Expiry = 0 -> ErrExpRequired
      [] Before(NumericDateTime(cl.Expiry), t) -> ErrExpPast
      [] OTHER -> NoErr

\* lines 606-620: the recommended claims, t being time.Now() of line 617
ClaimsError(cl, subtle, t) ==
    IF subtle THEN NoErr
    ELSE CASE Len(cl.Issuer) = 0 -> ErrIssRequired
           [] Len(cl.Audience) = 0 -> ErrAudRequired
           [] Len(cl.Subject) = 0 -> ErrSubRequired
           [] cl.Expiry = 0 -> ErrExpRequired
           [] Before(NumericDateTime(cl.Expiry), t) -> ErrExpPast
           [] OTHER -> NoErr

ValidateClaims ==
    /\ pc = "validateClaims"
    /\ tCheck' = IF ReadsClockForClaims(c, ctx.subtle) THEN clock ELSE NoTime
    /\ IF ClaimsError(c, ctx.subtle, clock) # NoErr
         THEN Fail(ClaimsError(c, ctx.subtle, clock))
         ELSE pc' = "sign" /\ UNCHANGED err
    /\ UNCHANGED <<ctx, clock, payload, jwk, c, tExp, keyReads, stdout, caVars, execVars>>

\* lines 625-627: the kid header, unless --no-kid or the key has no id
HeaderKid(k, noKid) == IF ~noKid /\ k.kid # "" THEN k.kid ELSE ""

EmitAlways(out, raw, e) == Append(out, raw)

\* lines 645-649: the token is printed only after serialization succeeded
Emit(out, raw, e) == IF e = NoErr THEN Append(out, raw) ELSE out

\* lines 622-650: signer, audience override, serialization, output
SignAndPrint ==
    /\ pc = "sign"
    /\ \E noKid \in BOOLEAN, signerOK \in BOOLEAN, serializeOK \in BOOLEAN :
          LET raw == [kid |-> HeaderKid(jwk, noKid), claims |-> TokenClaims(c, payload)]
              e == IF ~signerOK THEN ErrSigner
                   ELSE IF ~serializeOK THEN ErrSerialize ELSE NoErr
          IN /\ Fail(e)
             /\ stdout' = IF signerOK THEN Emit(stdout, raw, e) ELSE stdout
    /\ UNCHANGED <<ctx, clock, payload, jwk, c, tExp, tCheck, keyReads, caVars, execVars>>

NextSign ==
    \/ Tick
    \/ ReadPayload
    \/ ValidateKeyFlags
    \/ ReadKey
    \/ ValidateExp
    \/ AddClaims
    \/ ValidateClaims
    \/ SignAndPrint

SpecSign == InitSign /\ [][NextSign]_vars

----------------------------------------------------------------------------
(* offlineCA, lines 26-285 *)

\* a call into the wrapped authority and the error it returned
Call(fn, e, ott, ropts, sopts) ==
    [fn |-> fn, ok |-> (e = NoErr), err |-> e, ott |-> ott, ropts |-> ropts, sopts |-> sopts]

\* return v, nil
Ret(v, calls, insp) ==
    [outcome |-> "ok", err |-> NoErr, resp |-> v, calls |-> calls, rtInspected |-> insp]

\* return nil, e
ErrRet(e, calls, insp) ==
    [outcome |-> "error", err |-> e, resp |-> NoResp, calls |-> calls, rtInspected |-> insp]

\* a run-time panic: nil dereference, failed type assertion, index out of range
Panic(calls, insp) ==
    [outcome |-> "panic", err |-> NoErr, resp |-> NoResp, calls |-> calls, rtInspected |-> insp]

\* authority.New: Config.Validate and the key material
AuthorityNewError(cfg, keysOK) ==
    IF ~cfg.hasDNSNames \/ ~keysOK THEN ErrAuthorityNew ELSE NoErr

NewOfflineCAKeepsValue(readable, wellFormed, cfg, keysOK) ==
    CASE ~readable -> [ca |-> NilCA, r |-> ErrRet(ErrReadConfig, <<>>, FALSE)]
      [] ~wellFormed -> [ca |-> NilCA, r |-> ErrRet(ErrDecodeConfig, <<>>, FALSE)]
      [] ~cfg.hasAuthority \/ Len(cfg.provisioners) = 0 ->
            [ca |-> NilCA, r |-> ErrRet(ErrNoProvisioners, <<>>, FALSE)]
      [] OTHER ->
            LET e == AuthorityNewError(cfg, keysOK)
                calls == <<Call("New", e, "", NoRevokeOptions, NoSignOptions)>>
            IN [ca |-> [loaded |-> TRUE, config |-> cfg],
                r |-> IF e # NoErr THEN ErrRet(e, calls, FALSE)
                      ELSE Ret(<<"offlineCA">>, calls, FALSE)]

NewOfflineCANilOnly(readable, wellFormed, cfg, keysOK) ==
    CASE ~readable -> [ca |-> NilCA, r |-> ErrRet(ErrReadConfig, <<>>, FALSE)]
      [] ~wellFormed -> [ca |-> NilCA, r |-> ErrRet(ErrDecodeConfig, <<>>, FALSE)]
      [] ~cfg.hasAuthority ->
            [ca |-> NilCA, r |-> ErrRet(ErrNoProvisioners, <<>>, FALSE)]
      [] OTHER ->
            LET e == AuthorityNewError(cfg, keysOK)
                calls == <<Call("New", e, "", NoRevokeOptions, NoSignOptions)>>
            IN IF e # NoErr
                 THEN [ca |-> NilCA, r |-> ErrRet(e, calls, FALSE)]
                 ELSE [ca |-> [loaded |-> TRUE, config |-> cfg],
                       r |-> Ret(<<"offlineCA">>, calls, FALSE)]

\* lines 41-66: read the file, decode it, require a provisioner, build the authority
NewOfflineCA(readable, wellFormed, cfg, keysOK) ==
    CASE ~readable -> [ca |-> NilCA, r |-> ErrRet(ErrReadConfig, <<>>, FALSE)]
      [] ~wellFormed -> [ca |-> NilCA, r |-> ErrRet(ErrDecodeConfig, <<>>, FALSE)]
      [] ~cfg.hasAuthority \/ Len(cfg.provisioners) = 0 ->
            [ca |-> NilCA, r |-> ErrRet(ErrNoProvisioners, <<>>, FALSE)]
      [] OTHER ->
            LET e == AuthorityNewError(cfg, keysOK)
                calls == <<Call("New", e, "", NoRevokeOptions, NoSignOptions)>>
            IN IF e # NoErr
                 THEN [ca |-> NilCA, r |-> ErrRet(e, calls, FALSE)]
                 ELSE [ca |-> [loaded |-> TRUE, config |-> cfg],
                       r |-> Ret(<<"offlineCA">>, calls, FALSE)]

\* authority.Authorize: the token must be well formed, unexpired and unspent
AuthorizeError(ott, u) ==
    CASE ott = "ott-expired" -> ErrAuthzExpired
      [] ott # ValidOTT -> ErrAuthzInvalid
      [] ott \in u -> ErrAuthzUsed
      [] OTHER -> NoErr

SignIgnoresAuthorizeError(recv, req, u, signOK) ==
    IF ~recv.loaded THEN Panic(<<>>, FALSE)
    ELSE
      LET ae == AuthorizeError(req.OTT, u)
          authz == Call("Authorize", ae, req.OTT, NoRevokeOptions, NoSignOptions)
          se == IF signOK THEN NoErr ELSE ErrSigning
          sign == Call("Sign", se, "", NoRevokeOptions,
                       [NotBefore |-> req.NotBefore, NotAfter |-> req.NotAfter])
      IN IF se # NoErr THEN ErrRet(se, <<authz, sign>>, FALSE)
         ELSE Ret(<<"cert", "intermediate", "tlsOptions">>, <<authz, sign>>, FALSE)

\* lines 142-160: authorize the token, then sign the request
Sign(recv, req, u, signOK) ==
    IF ~recv.loaded THEN Panic(<<>>, FALSE)
    ELSE
      LET ae == AuthorizeError(req.OTT, u)
          authz == Call("Authorize", ae, req.OTT, NoRevokeOptions, NoSignOptions)
          se == IF signOK THEN NoErr ELSE ErrSigning
          sign == Call("Sign", se, "", NoRevokeOptions,
                       [NotBefore |-> req.NotBefore, NotAfter |-> req.NotAfter])
      IN IF ae # NoErr THEN ErrRet(ae, <<authz>>, FALSE)
         ELSE IF se # NoErr THEN ErrRet(se, <<authz, sign>>, FALSE)
         ELSE Ret(<<"cert", "intermediate", "tlsOptions">>, <<authz, sign>>, FALSE)

\* the http.RoundTripper handed to Renew and Revoke
Transports == {"transport", "transport-badcert", "transport-nocert", "other"}

\* rt.(*http.Transport) and Certificates[0].Certificate[0] panic on these
TransportPanics(rt) == rt \in {"other", "transport-nocert"}

\* x509.ParseCertificate of the transport's first certificate
PeerCertificate(rt) == IF rt = "transport" THEN "peer-leaf" ELSE ""

\* lines 164-182: renew the certificate of the mTLS peer
Renew(recv, rt, renewOK) ==
    IF TransportPanics(rt) THEN Panic(<<>>, TRUE)
    ELSE IF PeerCertificate(rt) = "" THEN ErrRet(ErrParseCert, <<>>, TRUE)
    ELSE IF ~recv.loaded THEN Panic(<<>>, TRUE)
    ELSE
      LET e == IF renewOK THEN NoErr ELSE ErrRenew
          calls == <<Call("Renew", e, "", NoRevokeOptions, NoSignOptions)>>
      IN IF e # NoErr THEN ErrRet(e, calls, TRUE)
         ELSE Ret(<<"cert", "intermediate", "tlsOptions">>, calls, TRUE)

RevokeOptionsAlwaysMTLS(req, rt) ==
    [Serial |-> req.Serial, Reason |-> req.Reason, ReasonCode |-> req.ReasonCode,
     PassiveOnly |-> req.Passive,
     OTT |-> req.OTT,
     MTLS |-> TRUE,
     Crt |-> IF Len(req.OTT) > 0 THEN "" ELSE PeerCertificate(rt)]

\* lines 187-208: the options handed to the authority, by mode
RevokeOptions(req, rt) ==
    [Serial |-> req.Serial, Reason |-> req.Reason, ReasonCode |-> req.ReasonCode,
     PassiveOnly |-> req.Passive,
     OTT |-> IF Len(req.OTT) > 0 THEN req.OTT ELSE "",
     MTLS |-> ~(Len(req.OTT) > 0),
     Crt |-> IF Len(req.OTT) > 0 THEN "" ELSE PeerCertificate(rt)]

\* authority.Revoke: a token to validate unless mTLS, then the revocation store
AuthorityRevokeError(opts, u, rv, storeOK) ==
    CASE ~opts.MTLS /\ AuthorizeError(opts.OTT, u) # NoErr -> AuthorizeError(opts.OTT, u)
      [] opts.Serial \in rv -> ErrAlreadyRevoked
      [] ~storeOK -> ErrStore
      [] OTHER -> NoErr

RevokeMasksAlreadyRevoked(recv, req, rt, u, rv, storeOK) ==
    LET mtls == ~(Len(req.OTT) > 0) IN
    IF mtls /\ TransportPanics(rt) THEN Panic(<<>>, TRUE)
    ELSE IF mtls /\ PeerCertificate(rt) = "" THEN ErrRet(ErrParseCert, <<>>, TRUE)
    ELSE IF ~recv.loaded THEN Panic(<<>>, mtls)
    ELSE
      LET opts == RevokeOptions(req, rt)
          e == AuthorityRevokeError(opts, u, rv, storeOK)
          calls == <<Call("Revoke", e, opts.OTT, opts, NoSignOptions)>>
      IN IF e # NoErr /\ e # ErrAlreadyRevoked THEN ErrRet(e, calls, mtls)
         ELSE Ret(<<"ok">>, calls, mtls)

\* lines 186-216: revoke by token, or by the certificate of the mTLS peer
Revoke(recv, req, rt, u, rv, storeOK) ==
    LET mtls == ~(Len(req.OTT) > 0) IN
    IF mtls /\ TransportPanics(rt) THEN Panic(<<>>, TRUE)
    ELSE IF mtls /\ PeerCertificate(rt) = "" THEN ErrRet(ErrParseCert, <<>>, TRUE)
    ELSE IF ~recv.loaded THEN Panic(<<>>, mtls)
    ELSE
      LET opts == RevokeOptions(req, rt)
          e == AuthorityRevokeError(opts, u, rv, storeOK)
          calls == <<Call("Revoke", e, opts.OTT, opts, NoSignOptions)>>
      IN IF e # NoErr THEN ErrRet(e, calls, mtls)
         ELSE Ret(<<"ok">>, calls, mtls)

\* lines 115-122: the audience of a token type, from the first DNS name
Audience(recv, tokType) ==
    IF ~recv.loaded \/ ~recv.config.hasDNSNames THEN Panic(<<>>, FALSE)
    ELSE IF tokType = revokeType THEN Ret(<<"https://", "dns1", "/revoke">>, <<>>, FALSE)
    ELSE Ret(<<"https://", "dns1", "/sign">>, <<>>, FALSE)

\* lines 125-127
CaURL(recv) ==
    IF ~recv.loaded \/ ~recv.config.hasDNSNames THEN Panic(<<>>, FALSE)
    ELSE Ret(<<"https://", "dns1">>, <<>>, FALSE)

\* lines 130-132
Root(recv) ==
    IF ~recv.loaded THEN Panic(<<>>, FALSE) ELSE Ret(<<"root.crt">>, <<>>, FALSE)

\* lines 135-137
Provisioners(recv) ==
    IF ~recv.loaded THEN Panic(<<>>, FALSE)
    ELSE Ret([i \in 1..Len(recv.config.provisioners) |-> recv.config.provisioners[i].type],
             <<>>, FALSE)

\* the errors of lines 71-91, by the first step that fails (6 and up: none of them)
ClientCertInputError(failAt) ==
    CASE failAt = 1 -> ErrReadCert
      [] failAt = 2 -> ErrReadKey
      [] failAt \in {3, 4} -> ErrSerializePEM
      [] failAt = 5 -> ErrKeyPair
      [] OTHER -> NoErr

\* lines 70-112: the pair is read and matched, then verified against the
\* pools of the configured root and intermediate
VerifyClientCert(recv, failAt) ==
    IF ClientCertInputError(failAt) # NoErr THEN ErrRet(ClientCertInputError(failAt), <<>>, FALSE)
    ELSE IF ~recv.loaded THEN Panic(<<>>, FALSE)
    ELSE IF failAt \in {6, 7} THEN ErrRet(ErrCertPool, <<>>, FALSE)
    ELSE IF failAt = 8 THEN ErrRet(ErrVerify, <<>>, FALSE)
    ELSE Ret(<<>>, <<>>, FALSE)

NoProvisioner == [type |-> "none", encryptedKey |-> FALSE, disableCustomSANs |-> FALSE]

\* provisionerPrompt: the only provisioner, or the one chosen at the prompt;
\* NoProvisioner when there is none to choose or the prompt fails
ProvisionerPrompt(provs, choice, promptOK) ==
    IF Len(provs) = 0 THEN NoProvisioner
    ELSE IF Len(provs) = 1 THEN provs[1]
    ELSE IF promptOK /\ choice \in 1..Len(provs) THEN provs[choice]
    ELSE NoProvisioner

CloudTypes == {"GCP", "AWS", "Azure"}

\* lines 219-285: select a provisioner and obtain its token; failAt is the
\* first step of the chosen path that fails (1: the helper, the metadata
\* request or the decryption, 2: decoding the key, 3: generateToken)
GenerateToken(recv, typ, choice, promptOK, failAt) ==
    IF ~recv.loaded \/ ~recv.config.hasDNSNames THEN Panic(<<>>, FALSE)
    ELSE
      LET p == ProvisionerPrompt(recv.config.provisioners, choice, promptOK) IN
      CASE p.type = "none" -> ErrRet(ErrPrompt, <<>>, FALSE)
        [] p.type = "OIDC" ->
              IF failAt = 1 THEN ErrRet(ErrOAuth, <<>>, FALSE)
              ELSE Ret(<<"oidc-token">>, <<>>, FALSE)
        [] p.type \in CloudTypes ->
              IF failAt = 1 THEN ErrRet(ErrIdentityToken, <<>>, FALSE)
              ELSE Ret(<<"identity-token">>, <<>>, FALSE)
        [] p.type # "JWK" -> ErrRet(ErrUnknownProvisioner, <<>>, FALSE)
        [] ~p.encryptedKey -> ErrRet(ErrNoEncryptedKey, <<>>, FALSE)
        [] failAt = 1 -> ErrRet(ErrDecrypt, <<>>, FALSE)
        [] failAt = 2 -> ErrRet(ErrUnmarshalKey, <<>>, FALSE)
        [] failAt = 3 -> ErrRet(ErrGenerateToken, <<>>, FALSE)
        [] OTHER -> Ret(<<"jwk-token", typ>>, <<>>, FALSE)

\* lines 233-249: the provisioner types whose token comes from outside the
\* process: the step oauth helper run by exec.Step, or GetIdentityToken
DelegatedTypes == {"OIDC"} \cup CloudTypes

\* GenerateToken reaches one of the calls of lines 234 and 243, 246, 249
Delegates(recv, choice, promptOK) ==
    /\ recv.loaded /\ recv.config.hasDNSNames
    /\ ProvisionerPrompt(recv.config.provisioners, choice, promptOK).type \in DelegatedTypes

\* lines 242, 245, 248: the chosen cloud provisioner sets the shared flag
SharedContextAfter(recv, choice, promptOK, shared) ==
    IF ~recv.loaded \/ ~recv.config.hasDNSNames THEN shared
    ELSE LET p == ProvisionerPrompt(recv.config.provisioners, choice, promptOK)
         IN IF p.type \in CloudTypes THEN p.disableCustomSANs ELSE shared

----------------------------------------------------------------------------
(* The caller of the offlineCA *)

NoContext ==
    [key |-> "", jwks |-> "", kid |-> "", subtle |-> FALSE, iss |-> "", sub |-> "",
     aud |-> <<>>, expSet |-> FALSE, exp |-> 0, jtiSet |-> FALSE, jti |-> ""]

\* signAction not running, as in a process that uses the offlineCA
SignIdle ==
    /\ ctx = NoContext
    /\ clock = 1
    /\ pc = "idle"
    /\ payload = EmptyObject
    /\ jwk = NoKey
    /\ c = NoClaims
    /\ tExp = NoTime
    /\ tCheck = NoTime
    /\ keyReads = 0
    /\ stdout = <<>>
    /\ err = NoErr

Init ==
    /\ SignIdle
    /\ CAIdle
    /\ ExecIdle

SignRequests == [OTT : OTTs \cup {""}, NotBefore : {0, 1}, NotAfter : {0, 1}]

\* reason, reason code and passive flag of the revoke requests considered
RevokeReasons ==
    { [Reason |-> "", ReasonCode |-> 0, Passive |-> FALSE],
      [Reason |-> "superseded", ReasonCode |-> 4, Passive |-> FALSE],
      [Reason |-> "keyCompromise", ReasonCode |-> 1, Passive |-> TRUE] }

RevokeRequests ==
    { [OTT |-> o, Serial |-> s, Reason |-> b.Reason, ReasonCode |-> b.ReasonCode,
       Passive |-> b.Passive] : o \in OTTs \cup {""}, s \in Serials, b \in RevokeReasons }

\* the tokens the authority spent and the serials it revoked during the calls
Spent(calls) ==
    {calls[i].ott : i \in {j \in 1..Len(calls) :
        calls[j].fn \in {"Authorize", "Revoke"} /\ calls[j].ok /\ calls[j].ott # ""}}

NewlyRevoked(calls) ==
    {calls[i].ropts.Serial : i \in {j \in 1..Len(calls) :
        calls[j].fn = "Revoke" /\ calls[j].ok}}

\* a panic ends the process
Alive == last.outcome # "panic"

\* the caller can make a call: it is alive and not inside GenerateToken
Ready == Alive /\ ~pending.waiting

\* the call op on the offlineCA the caller holds returned r; req is the revoke
\* request or the token of the sign request, cfg the configuration Load read
Returned(op, r, req, cfg) ==
    /\ last' = [op |-> op, recvLoaded |-> ca.loaded, outcome |-> r.outcome,
                err |-> r.err, resp |-> r.resp, calls |-> r.calls, req |-> req,
                cfg |-> cfg, rtInspected |-> r.rtInspected]
    /\ used' = used \cup Spent(r.calls)
    /\ revoked' = revoked \cup NewlyRevoked(r.calls)

\* the caller loads the configuration; it does so until it holds an offlineCA
Load ==
    /\ Ready
    /\ ~ca.loaded
    /\ \E readable \in BOOLEAN, wellFormed \in BOOLEAN, cfg \in Configs, keysOK \in BOOLEAN :
          LET n == NewOfflineCA(readable, wellFormed, cfg, keysOK) IN
          /\ ca' = n.ca
          /\ Returned("Load", n.r, NoRevokeRequest, cfg)
    /\ UNCHANGED <<sharedContext, pending, signVars, execVars>>

DoSign ==
    /\ Ready
    /\ \E req \in SignRequests, signOK \in BOOLEAN :
          Returned("Sign", Sign(ca, req, used, signOK),
                   [NoRevokeRequest EXCEPT !.OTT = req.OTT], NoConfig)
    /\ UNCHANGED <<ca, sharedContext, pending, signVars, execVars>>

DoRenew ==
    /\ Ready
    /\ \E rt \in Transports, renewOK \in BOOLEAN :
          Returned("Renew", Renew(ca, rt, renewOK), NoRevokeRequest, NoConfig)
    /\ UNCHANGED <<ca, sharedContext, pending, signVars, execVars>>

DoRevoke ==
    /\ Ready
    /\ \E req \in RevokeRequests, rt \in Transports, storeOK \in BOOLEAN :
          Returned("Revoke", Revoke(ca, req, rt, used, revoked, storeOK), req, NoConfig)
    /\ UNCHANGED <<ca, sharedContext, pending, signVars, execVars>>

\* lines 219-250: GenerateToken up to the call of exec.Step (line 234) or of
\* GetIdentityToken (lines 243, 246, 249), where it waits, and to its return on
\* every other path. exec.Step (cmd.Output(), src/exec/exec.go line 102) and
\* GetIdentityToken are given no deadline: whether the helper process ever
\* exits, or the metadata service ever replies, is the environment's choice.
DoGenerateToken ==
    /\ Ready
    /\ \E typ \in {signType, revokeType}, choice \in 1..2,
          promptOK \in BOOLEAN, failAt \in 1..4, answers \in BOOLEAN :
          /\ IF Delegates(ca, choice, promptOK)
                THEN /\ pending' = [waiting |-> TRUE, answers |-> answers, typ |-> typ,
                                    choice |-> choice, promptOK |-> promptOK]
                     /\ UNCHANGED <<used, revoked, last>>
                ELSE /\ Returned("GenerateToken",
                                 GenerateToken(ca, typ, choice, promptOK, failAt),
                                 NoRevokeRequest, NoConfig)
                     /\ UNCHANGED pending
          /\ sharedContext' = SharedContextAfter(ca, choice, promptOK, sharedContext)
    /\ UNCHANGED <<ca, signVars, execVars>>

\* exec.Step, lines 98-107 of src/exec/exec.go, and lines 237-249: the helper
\* exited, or the metadata service replied, with an error or with a token, and
\* GenerateToken returns it
GenerateTokenReturn ==
    /\ Alive
    /\ pending.waiting
    /\ pending.answers
    /\ \E failAt \in 1..2 :
          Returned("GenerateToken",
                   GenerateToken(ca, pending.typ, pending.choice, pending.promptOK, failAt),
                   NoRevokeRequest, NoConfig)
    /\ pending' = NoPending
    /\ UNCHANGED <<ca, sharedContext, signVars, execVars>>

DoVerifyClientCert ==
    /\ Ready
    /\ \E failAt \in 1..9 :
          Returned("VerifyClientCert", VerifyClientCert(ca, failAt), NoRevokeRequest, NoConfig)
    /\ UNCHANGED <<ca, sharedContext, pending, signVars, execVars>>

DoAudience ==
    /\ Ready
    /\ \E typ \in {signType, revokeType} :
          Returned("Audience", Audience(ca, typ), NoRevokeRequest, NoConfig)
    /\ UNCHANGED <<ca, sharedContext, pending, signVars, execVars>>

DoCaURL ==
    /\ Ready
    /\ Returned("CaURL", CaURL(ca), NoRevokeRequest, NoConfig)
    /\ UNCHANGED <<ca, sharedContext, pending, signVars, execVars>>

DoRoot ==
    /\ Ready
    /\ Returned("Root", Root(ca), NoRevokeRequest, NoConfig)
    /\ UNCHANGED <<ca, sharedContext, pending, signVars, execVars>>

DoProvisioners ==
    /\ Ready
    /\ Returned("Provisioners", Provisioners(ca), NoRevokeRequest, NoConfig)
    /\ UNCHANGED <<ca, sharedContext, pending, signVars, execVars>>

Next ==
    \/ Load
    \/ DoSign
    \/ DoRenew
    \/ DoRevoke
    \/ DoGenerateToken
    \/ GenerateTokenReturn
    \/ DoVerifyClientCert
    \/ DoAudience
    \/ DoCaURL
    \/ DoRoot
    \/ DoProvisioners

Spec == Init /\ [][Next]_vars

----------------------------------------------------------------------------
(* exec.Run and exec.RunWithPid, src/exec/exec.go *)

\* signals sent to the wrapper; until signal.Notify is called (line 162) a
\* signal has its default action: SIGINT ends the process, SIGWINCH is ignored
Signals == {"SIGINT", "SIGWINCH"}
TerminatingSignals == {"SIGINT"}

\* exit statuses of the child as syscall.WaitStatus.ExitStatus() reports them:
\* its exit code, or -1 when a signal ended it
ExitStatuses == {0, 3, -1}

\* lines 140-148
getExitStatus(ps) == IF ps.set THEN ps.status ELSE 1

\* lines 154-157: os.Exit(-1)
errorAndExit ==
    /\ wrapper' = "exited"
    /\ exitCode' = -1

\* signal.Notify(signals) has been called
Notified == handlerPc \notin {"none", "notify"}

InitExec ==
    /\ SignIdle
    /\ CAIdle
    /\ mode \in {"Run", "RunWithPid"}
    /\ mainPc = IF mode = "Run" THEN "run" ELSE "open"
    /\ handlerPc = "none" /\ sig = ""
    /\ child = "notStarted" /\ childStatus = 0 /\ processState = NoProcessState
    /\ wrapper = "running" /\ exitCode = 0 /\ sent = <<>>
    /\ pidFile \in (IF mode = "Run" THEN {"absent"} ELSE {"absent", "foreign"})
    /\ pidFileAtStart = pidFile
    /\ arrived = 0 /\ dropped = 0 /\ forwarded = 0

\* RunWithPid lines 52-55: O_CREATE|O_EXCL fails on an existing file
OpenPidFile ==
    /\ wrapper = "running" /\ mainPc = "open"
    /\ \E openOK \in BOOLEAN :
          IF pidFile # "absent" \/ ~openOK
              THEN errorAndExit /\ UNCHANGED <<mainPc, pidFile>>
              ELSE pidFile' = "created" /\ mainPc' = "run" /\ UNCHANGED <<wrapper, exitCode>>
    /\ UNCHANGED <<mode, handlerPc, sig, child, childStatus, processState, sent,
                   pidFileAtStart, arrived, dropped, forwarded, signVars, caVars>>

\* run, lines 122-138, and its callers' error paths (Run lines 36-39,
\* RunWithPid lines 58-63): cmd.Start, then go signalHandler
StartChild ==
    /\ wrapper = "running" /\ mainPc = "run"
    /\ \E startOK \in BOOLEAN :
          IF ~startOK
              THEN /\ errorAndExit
                   /\ pidFile' = IF mode = "RunWithPid" THEN "absent" ELSE pidFile
                   /\ UNCHANGED <<mainPc, handlerPc, child>>
              ELSE /\ child' = "running"
                   /\ handlerPc' = "notify"
                   /\ mainPc' = IF mode = "RunWithPid" THEN "write" ELSE "wait"
                   /\ UNCHANGED <<wrapper, exitCode, pidFile>>
    /\ UNCHANGED <<mode, sig, childStatus, processState, sent, pidFileAtStart,
                   arrived, dropped, forwarded, signVars, caVars>>

\* RunWithPid lines 66-67: f.Write(pid), f.Close()
WritePid ==
    /\ wrapper = "running" /\ mainPc = "write"
    /\ pidFile' = "written"
    /\ mainPc' = "wait"
    /\ UNCHANGED <<mode, handlerPc, sig, child, childStatus, processState, wrapper,
                   exitCode, sent, pidFileAtStart, arrived, dropped, forwarded,
                   signVars, caVars>>

\* Run lines 41-43, RunWithPid lines 70-72: cmd.Wait returns once the child
\* has finished; it sets cmd.ProcessState unless the wait itself failed
Wait ==
    /\ wrapper = "running" /\ mainPc = "wait"
    /\ child = "finished"
    /\ \E waitOK \in BOOLEAN :
          processState' = IF waitOK THEN [set |-> TRUE, status |-> childStatus]
                          ELSE NoProcessState
    /\ mainPc' = IF mode = "RunWithPid" THEN "remove" ELSE "send1"
    /\ UNCHANGED <<mode, handlerPc, sig, child, childStatus, wrapper, exitCode, sent,
                   pidFile, pidFileAtStart, arrived, dropped, forwarded, signVars, caVars>>

\* RunWithPid line 75: os.Remove(f.Name())
RemovePidFile ==
    /\ wrapper = "running" /\ mainPc = "remove"
    /\ pidFile' = "absent"
    /\ mainPc' = "send1"
    /\ UNCHANGED <<mode, handlerPc, sig, child, childStatus, processState, wrapper,
                   exitCode, sent, pidFileAtStart, arrived, dropped, forwarded,
                   signVars, caVars>>

\* Run lines 46-47, RunWithPid lines 76-77, signalHandler line 168: a send on
\* the unbuffered exitCh completes when signalHandler is at its select
SendExit ==
    /\ wrapper = "running" /\ mainPc \in {"send1", "send2"}
    /\ handlerPc = "select"
    /\ sent' = Append(sent, IF mainPc = "send1" THEN getExitStatus(processState) ELSE 0)
    /\ mainPc' = IF mainPc = "send1" THEN "send2" ELSE "done"
    /\ handlerPc' = "exit"
    /\ UNCHANGED <<mode, sig, child, childStatus, processState, wrapper, exitCode,
                   pidFile, pidFileAtStart, arrived, dropped, forwarded, signVars, caVars>>

\* signalHandler lines 161-162: make(chan os.Signal), signal.Notify(signals)
Notify ==
    /\ wrapper = "running" /\ handlerPc = "notify"
    /\ handlerPc' = "select"
    /\ UNCHANGED <<mode, mainPc, sig, child, childStatus, processState, wrapper,
                   exitCode, sent, pidFile, pidFileAtStart, arrived, dropped,
                   forwarded, signVars, caVars>>

\* signalHandler lines 166-167: cmd.Process.Signal(sig); its error, returned
\* when the child has already finished, is not looked at
Forward ==
    /\ wrapper = "running" /\ handlerPc = "forward"
    /\ forwarded' = IF child = "running" THEN forwarded + 1 ELSE forwarded
    /\ sig' = ""
    /\ handlerPc' = "select"
    /\ UNCHANGED <<mode, mainPc, child, childStatus, processState, wrapper, exitCode,
                   sent, pidFile, pidFileAtStart, arrived, dropped, signVars, caVars>>

\* signalHandler lines 168-169: os.Exit(code) with the value received
HandlerExit ==
    /\ wrapper = "running" /\ handlerPc = "exit"
    /\ wrapper' = "exited"
    /\ exitCode' = sent[Len(sent)]
    /\ UNCHANGED <<mode, mainPc, handlerPc, sig, child, childStatus, processState,
                   sent, pidFile, pidFileAtStart, arrived, dropped, forwarded,
                   signVars, caVars>>

\* a signal is sent to the wrapper. Before signal.Notify it has its default
\* action. After it, os/signal hands it to the channel without blocking: the
\* channel of line 161 has no buffer, so the signal is taken only if
\* signalHandler is waiting at its select, and is discarded otherwise
SignalArrives ==
    /\ wrapper = "running"
    /\ arrived < MaxSignals
    /\ arrived' = arrived + 1
    /\ \E s \in Signals :
          IF Notified /\ handlerPc = "select"
              THEN /\ handlerPc' = "forward"
                   /\ sig' = s
                   /\ UNCHANGED <<wrapper, dropped>>
              ELSE /\ dropped' = IF child = "running" THEN dropped + 1 ELSE dropped
                   /\ wrapper' = IF ~Notified /\ s \in TerminatingSignals
                                   THEN "killed" ELSE wrapper
                   /\ UNCHANGED <<handlerPc, sig>>
    /\ UNCHANGED <<mode, mainPc, child, childStatus, processState, exitCode, sent,
                   pidFile, pidFileAtStart, forwarded, signVars, caVars>>

\* the child process ends, by itself or by a signal
ChildExits ==
    /\ child = "running"
    /\ child' = "finished"
    /\ childStatus' \in ExitStatuses
    /\ UNCHANGED <<mode, mainPc, handlerPc, sig, processState, wrapper, exitCode, sent,
                   pidFile, pidFileAtStart, arrived, dropped, forwarded, signVars, caVars>>

NextExec ==
    \/ OpenPidFile
    \/ StartChild
    \/ WritePid
    \/ Wait
    \/ RemovePidFile
    \/ SendExit
    \/ Notify
    \/ Forward
    \/ HandlerExit
    \/ SignalArrives
    \/ ChildExits

SpecExec == InitExec /\ [][NextExec]_vars

----------------------------------------------------------------------------
(* Properties of signAction *)

Emitted == stdout # <<>>

\* C1: without --subtle a token is emitted only if issuer, an audience, subject
\* and expiry were all supplied and the expiry is strictly later than the
\* current time read by the last expiry check (line 617); an expiry equal to
\* that time is rejected.
C1_TokenOnlyIfExpiryStrictlyFuture ==
    (Emitted /\ ~ctx.subtle) =>
        /\ ctx.iss # "" /\ Len(ctx.aud) >= 1 /\ ctx.sub # "" /\ ctx.expSet
        /\ tCheck # NoTime
        /\ NumericDateTime(ctx.exp) > tCheck

\* C2 as stated: every emitted token whose claims hold exactly one audience
\* has aud as that value, a bare string, whatever the payload contains.
C2_SingleAudienceAlwaysString ==
    \A i \in 1..Len(stdout) :
        Len(c.Audience) = 1 =>
            /\ "aud" \in DOMAIN stdout[i].claims
            /\ stdout[i].claims["aud"] = JStr(c.Audience[1])

\* C2 (amended): every emitted token whose claims hold exactly one audience and
\* whose payload has no aud member of its own has aud as that value, a bare
\* string and not a one-element list.
C2_SingleAudienceStringUnlessPayloadAud ==
    \A i \in 1..Len(stdout) :
        (Len(c.Audience) = 1 /\ "aud" \notin DOMAIN payload) =>
            /\ "aud" \in DOMAIN stdout[i].claims
            /\ stdout[i].claims["aud"] = JStr(c.Audience[1])
            /\ stdout[i].claims["aud"] # JList(<<c.Audience[1]>>)

C2_Witness ==
    /\ Emitted
    /\ Len(c.Audience) = 1
    /\ "x" \in DOMAIN payload
    /\ stdout[1].claims["aud"].t = "str"

\* the run got past the key policy with a key fit for signing
ValidSigningKey == jwk.parsed

\* C3 as stated: without --subtle, with a valid signing key and no audience, the
\* run fails with the --aud message and writes nothing, whatever the other
\* claim flags are.
C3_NoAudienceAlwaysNamesAud ==
    (pc = "done" /\ ~ctx.subtle /\ ValidSigningKey /\ Len(ctx.aud) = 0) =>
        err = ErrAudRequired /\ stdout = <<>>

\* C3 (amended): without --subtle, with a valid signing key, an issuer, no
\* audience, an expiry that is absent or not earlier than the time read at line
\* 579, and no failure of the random jti source, the run fails with the --aud
\* message and writes nothing, whether subject and expiry are present or not.
C3_NoAudienceNamesAudAfterIssuer ==
    ( /\ pc = "done" /\ ~ctx.subtle /\ ValidSigningKey /\ Len(ctx.aud) = 0
      /\ ctx.iss # ""
      /\ (tExp = NoTime \/ ~(NumericDateTime(ctx.exp) < tExp))
      /\ err # ErrRandomJti ) =>
        err = ErrAudRequired /\ stdout = <<>>

C3_Witness ==
    /\ pc = "done" /\ ~ctx.subtle /\ ValidSigningKey /\ Len(ctx.aud) = 0
    /\ ctx.iss # "" /\ ctx.sub = "" /\ ~ctx.expSet
    /\ err = ErrAudRequired

NeitherKeyNorJwks == ctx.key = "" /\ ctx.jwks = ""
BothKeyAndJwks == ctx.key # "" /\ ctx.jwks # ""
JwksWithoutKid == ctx.jwks # "" /\ ctx.kid = ""

C5_NoPartialSuccess ==
    /\ pc # "done" => stdout = <<>>
    /\ (pc = "done" /\ err # NoErr) => stdout = <<>>
    /\ (pc = "done" /\ err = NoErr) => Len(stdout) = 1
    /\ Emitted =>
        /\ ~(NeitherKeyNorJwks \/ BothKeyAndJwks \/ JwksWithoutKid)
        /\ keyReads = 1 /\ ValidSigningKey
        /\ ~ctx.subtle =>
            ctx.iss # "" /\ ctx.aud # <<>> /\ ctx.sub # "" /\ ctx.exp # 0

C5_Witness ==
    /\ pc = "done" /\ err = ErrSerialize /\ stdout = <<>> /\ ValidSigningKey

\* the errors of the claim policy: the expiry check of line 579 and the
\* recommended claims of lines 606-620
ClaimPolicyErrors ==
    {ErrExpFlag, ErrIssRequired, ErrAudRequired, ErrSubRequired, ErrExpRequired, ErrExpPast}

\* C12: with --subtle, issuer, audience, subject and expiry are optional and an
\* expiry already in the past is accepted: once the signing key was read and
\* accepted, signAction never returns an error of the claim policy, whichever
\* claims are missing and however old the expiry is.
C12_SubtleSkipsClaimPolicy ==
    (pc = "done" /\ ctx.subtle /\ ValidSigningKey) => err \notin ClaimPolicyErrors

\* a subtle run without issuer, audience and subject, and with an expiry
\* in the past, which printed its token
C12_Witness ==
    /\ pc = "done" /\ ctx.subtle /\ ValidSigningKey
    /\ ctx.iss = "" /\ ctx.aud = <<>> /\ ctx.sub = ""
    /\ ctx.expSet /\ ctx.exp # 0 /\ Before(NumericDateTime(ctx.exp), clock)
    /\ err = NoErr /\ Emitted

----------------------------------------------------------------------------
(* Properties of the offlineCA *)

\* the calls of the last operation into the authority's fn
CallsOf(fn) == {i \in 1..Len(last.calls) : last.calls[i].fn = fn}

\* C6: when the authority refuses the token of a Sign request (invalid, expired
\* or already used), Sign returns that authorization error and no response, and
\* the authority's Sign is not called.
C6_RefusedTokenSignsNothing ==
    (last.op = "Sign" /\ \E i \in CallsOf("Authorize") : ~last.calls[i].ok) =>
        /\ last.outcome = "error"
        /\ last.err \in AuthorizationErrors
        /\ \A i \in CallsOf("Authorize") : last.err = last.calls[i].err
        /\ last.resp = NoResp
        /\ CallsOf("Sign") = {}

C6_Witness ==
    /\ last.op = "Sign" /\ last.req.OTT = ValidOTT /\ last.err = ErrAuthzUsed
    /\ ValidOTT \in used

\* C7: the options Revoke hands to the authority: with a token in the request
\* they carry that token, MTLS = false and no certificate, and the transport is
\* not inspected; without one they carry MTLS = true, no token and the peer
\* leaf certificate of the transport. Serial, reason, reason code and the
\* passive flag are those of the request in both modes.
C7_RevokeModes ==
    last.op = "Revoke" =>
        /\ Len(last.req.OTT) > 0 => ~last.rtInspected
        /\ \A i \in CallsOf("Revoke") :
            LET o == last.calls[i].ropts IN
            /\ Len(last.req.OTT) > 0 =>
                  o.OTT = last.req.OTT /\ o.MTLS = FALSE /\ o.Crt = ""
            /\ Len(last.req.OTT) = 0 =>
                  o.MTLS = TRUE /\ o.OTT = "" /\ o.Crt = "peer-leaf" /\ last.rtInspected
            /\ o.Serial = last.req.Serial
            /\ o.Reason = last.req.Reason
            /\ o.ReasonCode = last.req.ReasonCode
            /\ o.PassiveOnly = last.req.Passive

C7_Witness ==
    /\ last.op = "Revoke" /\ last.req.OTT = ValidOTT /\ last.req.Passive
    /\ CallsOf("Revoke") # {}
    /\ last.outcome = "ok"

\* C8: Revoke answers "ok" exactly when the authority's revocation call
\* succeeded; an error of that call, an already revoked serial included, is
\* returned as it is with no response; the call is made at most once.
C8_RevokePropagatesStoreResult ==
    last.op = "Revoke" =>
        /\ Cardinality(CallsOf("Revoke")) <= 1
        /\ (last.outcome = "ok" /\ last.resp = <<"ok">>)
              <=> (\E i \in CallsOf("Revoke") : last.calls[i].ok)
        /\ \A i \in CallsOf("Revoke") :
              ~last.calls[i].ok =>
                  last.outcome = "error" /\ last.err = last.calls[i].err /\ last.resp = NoResp

C8_Witness ==
    /\ last.op = "Revoke" /\ last.err = ErrAlreadyRevoked /\ last.req.Serial \in revoked

\* C9: loading a configuration without an authority section or with an empty
\* provisioner list fails, returns no offlineCA and does not reach authority.New.
C9_NoProvisionersNoAuthority ==
    (last.op = "Load" /\ (~last.cfg.hasAuthority \/ Len(last.cfg.provisioners) = 0)) =>
        /\ last.outcome = "error"
        /\ last.resp = NoResp
        /\ ~ca.loaded
        /\ CallsOf("New") = {}

C9_Witness ==
    /\ last.op = "Load" /\ last.cfg.hasAuthority /\ last.cfg.provisioners = <<>>
    /\ last.cfg.hasDNSNames
    /\ last.err = ErrNoProvisioners

OtherOperations ==
    {"Sign", "Renew", "Revoke", "GenerateToken", "VerifyClientCert", "Audience",
     "CaURL", "Root", "Provisioners"}

\* Loaded is entered only by a successful Load and never left
LoadedOnlyByLoad ==
    /\ ca.loaded => ca' = ca
    /\ (~ca.loaded /\ ca'.loaded) => (last'.op = "Load" /\ last'.outcome = "ok")

\* the configuration error the claim expects of an authority that is not Loaded
ErrNotLoaded == "configuration error: authority not loaded"

\* C10 as stated: Loaded is entered only by a successful Load and never left,
\* and every other operation invoked while the authority is not Loaded fails
\* with a configuration error.
C10_NotLoadedIsConfigError ==
    /\ [][LoadedOnlyByLoad]_vars
    /\ []((last.op \in OtherOperations /\ ~last.recvLoaded) =>
            (last.outcome = "error" /\ last.err = ErrNotLoaded))

\* the errors Renew, Revoke and VerifyClientCert return for their own inputs
\* before they touch the receiver
InputErrors == {ErrParseCert, ErrReadCert, ErrReadKey, ErrSerializePEM, ErrKeyPair}

\* C10 (amended): Loaded is entered only by a successful Load and never left;
\* the other operations have no Loaded check: invoked on the nil offlineCA of a
\* failed Load they never return a configuration error, they panic, unless
\* Renew, Revoke or VerifyClientCert first returns an error of its own inputs.
C10_NotLoadedPanics ==
    /\ [][LoadedOnlyByLoad]_vars
    /\ []((last.op \in OtherOperations /\ ~last.recvLoaded) =>
            /\ last.err # ErrNotLoaded
            /\ last.resp = NoResp
            /\ \/ last.outcome = "panic"
               \/ /\ last.op \in {"Renew", "Revoke", "VerifyClientCert"}
                  /\ last.outcome = "error" /\ last.err \in InputErrors)

C10_Witness ==
    /\ ~ca.loaded /\ last.op = "Sign" /\ ~last.recvLoaded /\ last.outcome = "panic"

\* C11: token issuance through a delegated identity source always terminates:
\* whenever GenerateToken, having selected an OIDC, GCP, AWS or Azure
\* provisioner, waits on the external helper or the metadata service, its
\* return is possible, also when the helper or the service never answers (it
\* then returns an error); the call is never blocked for ever.
C11_DelegatedTokenCallTerminates ==
    pending.waiting => ENABLED GenerateTokenReturn

----------------------------------------------------------------------------
(* Properties of exec.Run and exec.RunWithPid *)

\* the child process has been started
Started == child # "notStarted"

\* C13: once the child has started, exec.Run exits the wrapper with the
\* child's exit status under every interleaving of signalHandler and the main
\* goroutine: when the wrapper process has ended it ended by os.Exit, the child
\* had finished, and the exit code is the first value sent on the exit channel,
\* the status getExitStatus computed, never the trailing 0; and every signal
\* that reached the wrapper while the child was running was forwarded to it.
C13_RunExitsWithChildStatus ==
    (mode = "Run" /\ Started) =>
        /\ wrapper # "running" =>
              /\ wrapper = "exited"
              /\ child = "finished"
              /\ sent # <<>>
              /\ exitCode = sent[1]
              /\ exitCode = getExitStatus(processState)
        /\ dropped = 0

\* C14: RunWithPid never leaves behind a pid file it created and never touches
\* one it did not create: a pid file that existed at the call is still there,
\* unmodified, and the child was not started; and when the wrapper process has
\* ended, after a failed start or after the child finished, no pid file
\* created by it remains.
C14_PidFileRemovedOrUntouched ==
    mode = "RunWithPid" =>
        /\ pidFileAtStart = "foreign" => (pidFile = "foreign" /\ ~Started)
        /\ wrapper # "running" => pidFile \notin {"created", "written"}

====
